---- MODULE Spec2Model ----
(***************************************************************************)
(* Model of the voice search agent: the Query Gateway (the GET handler of  *)
(* src/app/api/search/route.ts) and the Agent Client (the Home component). *)
(* Text is modelled by strings; JavaScript null/undefined by the empty     *)
(* tuple None and a present value v by Some(v).                            *)
(***************************************************************************)
EXTENDS Integers, Sequences, FiniteSets, TLC

\* ------------------------------------------------------------------------
\* Bounds
\* ------------------------------------------------------------------------
MaxItems == 4
MaxSearches == 2

\* ------------------------------------------------------------------------
\* Values
\* ------------------------------------------------------------------------
None == <<>>
Some(v) == <<v>>

\* query parameter values a request can carry (searchParams.get("query"))
QueryParams == {None} \cup {Some(s) : s \in {"", " ", "  ", "a", " a", "a ", "a b"}}

\* values of process.env.GOOGLE_API_KEY / GOOGLE_CSE_ID
EnvValues == {None, Some(""), Some("k")}

\* String.prototype.trim
RECURSIVE TrimStart(_)
TrimStart(s) ==
  IF Len(s) = 0 THEN s
  ELSE IF Head(s) = " " THEN TrimStart(Tail(s)) ELSE s

RECURSIVE TrimEnd(_)
TrimEnd(s) ==
  IF Len(s) = 0 THEN s
  ELSE IF SubSeq(s, Len(s), Len(s)) = " " THEN TrimEnd(SubSeq(s, 1, Len(s) - 1)) ELSE s

Trim(s) == TrimEnd(TrimStart(s))

\* JavaScript truthiness of a string | null | undefined value
Falsy(o) == o = None \/ o[1] = ""

Min(a, b) == IF a <= b THEN a ELSE b

\* Array.prototype.join(" ")
RECURSIVE JoinSpace(_)
JoinSpace(parts) ==
  IF Len(parts) = 0 THEN ""
  ELSE IF Len(parts) = 1 THEN parts[1]
  ELSE parts[1] \o " " \o JoinSpace(Tail(parts))

\* ------------------------------------------------------------------------
\* Provider (Google Custom Search) responses
\* ------------------------------------------------------------------------
Item1 == [title |-> "T1", link |-> "http://a/1", snippet |-> "S1",
          displayLink |-> Some("a.com"), kind |-> "customsearch#result"]
Item2 == [title |-> "T2", link |-> "http://b/2", snippet |-> "S2",
          displayLink |-> None, kind |-> "customsearch#result"]
ProviderItems == {Item1, Item2}

ItemLists == UNION {[1..n -> ProviderItems] : n \in 0..MaxItems}

\* the error field of a provider payload: absent, a string, or another JSON value
ErrorFields == {None, Some([isString |-> TRUE, val |-> "quota exceeded"]),
                Some([isString |-> TRUE, val |-> ""]),
                Some([isString |-> FALSE, val |-> "{code:403}"])}

\* a response body as response.json() sees it: not JSON at all, the JSON
\* value null, another non-object JSON value, or an object
Payload(k, e, i) == [kind |-> k, error |-> e, items |-> i]
OkPayloads ==
  {Payload("unparseable", None, None), Payload("null", None, None),
   Payload("scalar", None, None), Payload("object", None, None)}
  \cup {Payload("object", None, Some(l)) : l \in ItemLists}
ErrorPayloads ==
  {Payload("unparseable", None, None), Payload("null", None, None),
   Payload("scalar", None, None)}
  \cup {Payload("object", e, None) : e \in ErrorFields}

OkStatuses == {200}
ErrorStatuses == {400, 403, 429, 500}
ProviderResponses ==
  {[status |-> s, payload |-> p] : s \in OkStatuses, p \in OkPayloads}
  \cup {[status |-> s, payload |-> p] : s \in ErrorStatuses, p \in ErrorPayloads}

\* Response.ok
Ok(response) == response.status >= 200 /\ response.status <= 299

\* ------------------------------------------------------------------------
\* Query Gateway
\* ------------------------------------------------------------------------
VARIABLES
  GOOGLE_API_KEY,   \* process.env.GOOGLE_API_KEY, read once at module load
  GOOGLE_CSE_ID,    \* process.env.GOOGLE_CSE_ID
  gwPc,             \* position of GET: "ready", "awaitFetch", "returned"
  gwQuery,          \* the query parameter of the request being served
  gwFetches,        \* outbound provider calls issued for this request
  gwProvider,       \* what the provider call produced (None until it completes)
  gwLogs,           \* console.error lines written for this request
  gwResponse        \* the response returned (None until GET returns)

gwVars == <<GOOGLE_API_KEY, GOOGLE_CSE_ID, gwPc, gwQuery, gwFetches, gwProvider,
            gwLogs, gwResponse>>

MissingQueryMsg == "Missing query"
NotConfiguredMsg ==
  "Search service is not configured. Please add GOOGLE_API_KEY and GOOGLE_CSE_ID to the environment."
GenericProviderMsg == "Google Search API error"
RequestFailedMsg == "Search request failed"

\* NextResponse.json(body, { status })
ErrorResponse(status, message) ==
  [status |-> status, error |-> Some(message), results |-> None, summary |-> None]
SuccessResponse(results, summary) ==
  [status |-> 200, error |-> None, results |-> Some(results), summary |-> Some(summary)]

\* variant: no separate sentence for an empty result list
summarizeResults_noEmptyCase(query, results) ==
  LET highlightCount == Min(Len(results), 3)
      sliced == SubSeq(results, 1, highlightCount)
      highlights ==
        JoinSpace([i \in 1..Len(sliced) |->
                     sliced[i].title \o ". " \o sliced[i].snippet])
  IN "Here is what I found for " \o query \o ". " \o highlights

\* variant: two highlights instead of three
summarizeResults_two(query, results) ==
  IF Len(results) = 0
  THEN "I could not find any results for " \o query \o "."
  ELSE LET sliced == SubSeq(results, 1, Min(Len(results), 2))
       IN "Here is what I found for " \o query \o ". " \o
          JoinSpace([i \in 1..Len(sliced) |->
                       sliced[i].title \o ". " \o sliced[i].snippet])

summarizeResults(query, results) ==
  IF Len(results) = 0
  THEN "I could not find any results for " \o query \o "."
  ELSE LET highlightCount == Min(Len(results), 3)
           sliced == SubSeq(results, 1, highlightCount)
           highlights ==
             JoinSpace([i \in 1..Len(sliced) |->
                          sliced[i].title \o ". " \o sliced[i].snippet])
       IN "Here is what I found for " \o query \o ". " \o highlights

\* variant: the item list comes out reversed
NormalizeItems_reversed(payload) ==
  LET items == IF payload.kind = "object" /\ payload.items # None
               THEN payload.items[1] ELSE <<>>
  IN [i \in 1..Len(items) |->
        [title |-> items[Len(items) + 1 - i].title,
         link |-> items[Len(items) + 1 - i].link,
         snippet |-> items[Len(items) + 1 - i].snippet,
         displayLink |-> items[Len(items) + 1 - i].displayLink]]

\* (payload.items ?? []).map(item => ({ title, link, snippet, displayLink }))
NormalizeItems(payload) ==
  LET items == IF payload.kind = "object" /\ payload.items # None
               THEN payload.items[1] ELSE <<>>
  IN [i \in 1..Len(items) |->
        [title |-> items[i].title, link |-> items[i].link,
         snippet |-> items[i].snippet, displayLink |-> items[i].displayLink]]

\* the !response.ok branch: payload = await response.json().catch(() => ({}));
\* reading payload.error of the JSON value null throws, which the enclosing
\* try/catch turns into the generic transport failure
ProviderErrorOutcome(response) ==
  LET payload == response.payload IN
  IF payload.kind = "null"
  THEN [threw |-> TRUE, response |-> ErrorResponse(500, RequestFailedMsg)]
  ELSE LET message ==
             IF payload.kind = "object" /\ payload.error # None
                /\ payload.error[1].isString
             THEN payload.error[1].val
             ELSE GenericProviderMsg
       IN [threw |-> FALSE, response |-> ErrorResponse(response.status, message)]

\* the success branch: payload = await response.json(); a body that is not
\* JSON rejects, and reading payload.items of null throws
ProviderSuccessOutcome(query, response) ==
  LET payload == response.payload IN
  IF payload.kind \in {"unparseable", "null"}
  THEN [threw |-> TRUE, response |-> ErrorResponse(500, RequestFailedMsg)]
  ELSE LET results == NormalizeItems(payload)
       IN [threw |-> FALSE,
           response |-> SuccessResponse(results, summarizeResults(query, results))]

GwInit ==
  /\ GOOGLE_API_KEY \in EnvValues
  /\ GOOGLE_CSE_ID \in EnvValues
  /\ gwPc = "ready"
  /\ gwQuery = None
  /\ gwFetches = 0
  /\ gwProvider = None
  /\ gwLogs = 0
  /\ gwResponse = None

\* variant: the credential check runs before the query check
GET_credentialsFirst(query) ==
  /\ gwPc \in {"ready", "returned"}
  /\ gwQuery' = query
  /\ gwProvider' = None
  /\ gwLogs' = 0
  /\ IF Falsy(GOOGLE_API_KEY) \/ Falsy(GOOGLE_CSE_ID)
     THEN /\ gwResponse' = Some(ErrorResponse(500, NotConfiguredMsg))
          /\ gwFetches' = 0
          /\ gwPc' = "returned"
     ELSE IF Falsy(query) \/ Trim(query[1]) = ""
     THEN /\ gwResponse' = Some(ErrorResponse(400, MissingQueryMsg))
          /\ gwFetches' = 0
          /\ gwPc' = "returned"
     ELSE /\ gwResponse' = None
          /\ gwFetches' = 1
          /\ gwPc' = "awaitFetch"
  /\ UNCHANGED <<GOOGLE_API_KEY, GOOGLE_CSE_ID>>

\* variant: the configuration error needs both credentials to be missing
GET_bothMissing(query) ==
  /\ gwPc \in {"ready", "returned"}
  /\ gwQuery' = query
  /\ gwProvider' = None
  /\ gwLogs' = 0
  /\ IF Falsy(query) \/ Trim(query[1]) = ""
     THEN /\ gwResponse' = Some(ErrorResponse(400, MissingQueryMsg))
          /\ gwFetches' = 0
          /\ gwPc' = "returned"
     ELSE IF Falsy(GOOGLE_API_KEY) /\ Falsy(GOOGLE_CSE_ID)
     THEN /\ gwResponse' = Some(ErrorResponse(500, NotConfiguredMsg))
          /\ gwFetches' = 0
          /\ gwPc' = "returned"
     ELSE /\ gwResponse' = None
          /\ gwFetches' = 1
          /\ gwPc' = "awaitFetch"
  /\ UNCHANGED <<GOOGLE_API_KEY, GOOGLE_CSE_ID>>

\* GET up to its first return or to the await of fetch
GET(query) ==
  /\ gwPc \in {"ready", "returned"}
  /\ gwQuery' = query
  /\ gwProvider' = None
  /\ gwLogs' = 0
  /\ IF Falsy(query) \/ Trim(query[1]) = ""
     THEN /\ gwResponse' = Some(ErrorResponse(400, MissingQueryMsg))
          /\ gwFetches' = 0
          /\ gwPc' = "returned"
     ELSE IF Falsy(GOOGLE_API_KEY) \/ Falsy(GOOGLE_CSE_ID)
     THEN /\ gwResponse' = Some(ErrorResponse(500, NotConfiguredMsg))
          /\ gwFetches' = 0
          /\ gwPc' = "returned"
     ELSE /\ gwResponse' = None
          /\ gwFetches' = 1
          /\ gwPc' = "awaitFetch"
  /\ UNCHANGED <<GOOGLE_API_KEY, GOOGLE_CSE_ID>>

\* variant: a failed provider call is issued once more
FetchResolved_retry(response) ==
  /\ gwPc = "awaitFetch"
  /\ IF ~Ok(response) /\ gwFetches < 2
     THEN /\ gwFetches' = gwFetches + 1
          /\ gwPc' = "awaitFetch"
          /\ UNCHANGED <<gwResponse, gwLogs, gwProvider>>
     ELSE /\ LET outcome == IF Ok(response)
                            THEN ProviderSuccessOutcome(gwQuery[1], response)
                            ELSE ProviderErrorOutcome(response)
             IN /\ gwResponse' = Some(outcome.response)
                /\ gwLogs' = IF outcome.threw THEN gwLogs + 1 ELSE gwLogs
          /\ gwProvider' = Some(response)
          /\ gwPc' = "returned"
          /\ UNCHANGED gwFetches
  /\ UNCHANGED <<GOOGLE_API_KEY, GOOGLE_CSE_ID, gwQuery>>

\* the provider answered: GET resumes after await fetch(...)
FetchResolved(response) ==
  /\ gwPc = "awaitFetch"
  /\ LET outcome == IF Ok(response)
                    THEN ProviderSuccessOutcome(gwQuery[1], response)
                    ELSE ProviderErrorOutcome(response)
     IN /\ gwResponse' = Some(outcome.response)
        /\ gwLogs' = IF outcome.threw THEN gwLogs + 1 ELSE gwLogs
  /\ gwProvider' = Some(response)
  /\ gwPc' = "returned"
  /\ UNCHANGED <<GOOGLE_API_KEY, GOOGLE_CSE_ID, gwQuery, gwFetches>>

\* variant: the catch block does not log
FetchRejected_noLog ==
  /\ gwPc = "awaitFetch"
  /\ gwResponse' = Some(ErrorResponse(500, RequestFailedMsg))
  /\ gwLogs' = gwLogs
  /\ gwProvider' = Some([status |-> 0, payload |-> Payload("rejected", None, None)])
  /\ gwPc' = "returned"
  /\ UNCHANGED <<GOOGLE_API_KEY, GOOGLE_CSE_ID, gwQuery, gwFetches>>

\* the provider call could not complete: fetch rejects, the catch block runs
FetchRejected ==
  /\ gwPc = "awaitFetch"
  /\ gwResponse' = Some(ErrorResponse(500, RequestFailedMsg))
  /\ gwLogs' = gwLogs + 1
  /\ gwProvider' = Some([status |-> 0, payload |-> Payload("rejected", None, None)])
  /\ gwPc' = "returned"
  /\ UNCHANGED <<GOOGLE_API_KEY, GOOGLE_CSE_ID, gwQuery, gwFetches>>

GwNext ==
  \/ \E query \in QueryParams : GET(query)
  \/ \E response \in ProviderResponses : FetchResolved(response)
  \/ FetchRejected


\* ------------------------------------------------------------------------
\* Agent Client (the Home component)
\* ------------------------------------------------------------------------
VARIABLES
  query,            \* useState("")
  transcript,       \* useState("")
  results,          \* useState<SearchItem[]>([])
  status,           \* useState<AgentStatus>("idle")
  error,            \* useState<string | null>(null)
  speechSupported,  \* useState(false), set by the mount effect
  recognitionRef,   \* TRUE when recognitionRef.current holds an instance
  synthesis,        \* TRUE when "speechSynthesis" in window
  recActive,        \* the recognizer has been started and has not ended
  recStopping,      \* the running recognizer is ending: stop() was called or it failed
  utterance,        \* the utterance speechSynthesis is speaking, or None
  inflight,         \* ids of the gateway requests awaiting their response
  timers,           \* ids of the searches whose 600 ms timer is pending
  nextId,           \* id of the next gateway request
  resultsOf,        \* id of the search whose response set results (0: none)
  latestOk,         \* largest id of a search that succeeded (0: none)
  last,             \* the handler that ran last, its outcome and its input
  steps,            \* the status before it and every status it assigned, in order
  calls             \* the state setters and platform calls it made, in order

clVars == <<query, transcript, results, status, error, speechSupported,
            recognitionRef, synthesis, recActive, recStopping, utterance,
            inflight, timers, nextId, resultsOf, latestOk, last, steps, calls>>

vars == <<GOOGLE_API_KEY, GOOGLE_CSE_ID, gwPc, gwQuery, gwFetches, gwProvider,
          gwLogs, gwResponse, query, transcript, results, status, error,
          speechSupported, recognitionRef, synthesis, recActive, recStopping,
          utterance, inflight, timers, nextId, resultsOf, latestOk, last, steps,
          calls>>

BlankInputMsg == "Please provide something to search for."
StartFailedMsg == "Voice input failed to start. Please try again."
SearchFailedMsg == "Search failed. Please try again."
DefaultNarration == "Here are your search results."

\* what the user can type into the input
TypedTexts == {" ", " a "}

\* recognition events: event.results as a list of results, each result the
\* list of its alternatives' transcripts
RecognitionEvents == {<<>>, << <<>> >>, << <<" a", "x">>, <<>> >>}

\* what fetch("/api/search?...") can produce: a rejection, or a response
\* with a status and a body
SearchItemA == [title |-> "T1", link |-> "http://a/1", snippet |-> "S1",
                displayLink |-> Some("a.com")]
SearchItemB == [title |-> "T2", link |-> "http://b/2", snippet |-> "S2",
                displayLink |-> None]
Body(k, e, r, s) == [kind |-> k, error |-> e, results |-> r, summary |-> s]
GatewayResponses ==
  {[rejected |-> TRUE, ok |-> FALSE, body |-> Body("none", None, None, None)]}
  \cup {[rejected |-> FALSE, ok |-> FALSE, body |-> b] :
          b \in {Body("unparseable", None, None, None),
                 Body("null", None, None, None),
                 Body("object", None, None, None),
                 Body("object", Some(""), None, None),
                 Body("object", Some(RequestFailedMsg), None, None)}}
  \cup {[rejected |-> FALSE, ok |-> TRUE, body |-> b] :
          b \in {Body("unparseable", None, None, None),
                 Body("null", None, None, None),
                 Body("object", None, None, None),
                 Body("object", None, Some(<<>>), Some("")),
                 Body("object", None, Some(<<SearchItemA>>), Some("S")),
                 Body("object", None, Some(<<SearchItemB, SearchItemA>>), Some("S"))}}

\* the message of the error a failed search throws into the catch block
FailureMessage(response) ==
  IF response.rejected THEN "Failed to fetch"
  ELSE IF response.body.kind = "null" THEN "Cannot read properties of null"
  ELSE IF response.ok THEN "Unexpected token in JSON"
  ELSE IF response.body.kind = "object" /\ ~Falsy(response.body.error)
       THEN response.body.error[1]
       ELSE SearchFailedMsg

\* does handleSearch reach setResults for this response
Succeeds(response) ==
  ~response.rejected /\ response.ok /\ response.body.kind = "object"

Ran(op, outcome) ==
  [op |-> op, outcome |-> outcome, capture |-> recActive /\ ~recStopping,
   narrating |-> utterance # None, input |-> None]

ClInit ==
  /\ query = ""
  /\ transcript = ""
  /\ results = <<>>
  /\ status = "idle"
  /\ error = None
  /\ speechSupported \in BOOLEAN
  /\ recognitionRef = speechSupported
  /\ synthesis \in BOOLEAN
  /\ recActive = FALSE
  /\ recStopping = FALSE
  /\ utterance = None
  /\ inflight = {}
  /\ timers = {}
  /\ nextId = 1
  /\ resultsOf = 0
  /\ latestOk = 0
  /\ last = [op |-> "mount", outcome |-> "", capture |-> FALSE, narrating |-> FALSE,
             input |-> None]
  /\ steps = <<"idle">>
  /\ calls = <<>>

\* the input's onChange; the input is disabled while searching
onChange(text) ==
  /\ status # "searching"
  /\ query' = text
  /\ last' = Ran("onChange", "")
  /\ steps' = <<status>>
  /\ calls' = <<"setQuery">>
  /\ UNCHANGED <<transcript, results, status, error, speechSupported,
                 recognitionRef, synthesis, recActive, recStopping, utterance,
                 inflight, timers, nextId>>
  /\ UNCHANGED <<resultsOf, latestOk>>

\* instance.onresult
onresult(event) ==
  /\ recActive
  /\ LET finalResult ==
           Trim(JoinSpace([index \in 1..Len(event) |->
                             IF Len(event[index]) = 0 THEN ""
                             ELSE event[index][1]]))
     IN /\ transcript' = finalResult
        /\ query' = finalResult
  /\ last' = Ran("onresult", "")
  /\ steps' = <<status>>
  /\ calls' = <<"setTranscript", "setQuery">>
  /\ UNCHANGED <<results, status, error, speechSupported, recognitionRef,
                 synthesis, recActive, recStopping, utterance, inflight, timers,
                 nextId>>
  /\ UNCHANGED <<resultsOf, latestOk>>

\* instance.onerror; after an error the recognizer captures no more and ends
onerror ==
  /\ recActive
  /\ status' = "idle"
  /\ last' = Ran("onerror", "failed")
  /\ steps' = <<status, "idle">>
  /\ calls' = <<"setStatus">>
  /\ recStopping' = TRUE
  /\ UNCHANGED <<query, transcript, results, error, speechSupported,
                 recognitionRef, synthesis, recActive, utterance, inflight,
                 timers, nextId>>
  /\ UNCHANGED <<resultsOf, latestOk>>

\* instance.onend: the recognizer session is over
onend ==
  /\ recActive
  /\ recActive' = FALSE
  /\ recStopping' = FALSE
  /\ status' = IF status = "listening" THEN "idle" ELSE status
  /\ last' = Ran("onend", "")
  /\ steps' = <<status, IF status = "listening" THEN "idle" ELSE status>>
  /\ calls' = <<"setStatus">>
  /\ UNCHANGED <<query, transcript, results, error, speechSupported,
                 recognitionRef, synthesis, utterance, inflight, timers, nextId>>
  /\ UNCHANGED <<resultsOf, latestOk>>

\* the voice button while it reads "Stop Listening"
stopListening ==
  /\ speechSupported
  /\ status = "listening"
  /\ recStopping' = (IF recognitionRef /\ recActive THEN TRUE ELSE recStopping)
  /\ status' = "idle"
  /\ last' = Ran("stopListening", "")
  /\ steps' = <<status, "idle">>
  /\ calls' = (IF recognitionRef THEN <<"recognition.stop">> ELSE <<>>)
                \o <<"setStatus">>
  /\ UNCHANGED <<query, transcript, results, error, speechSupported,
                 recognitionRef, synthesis, recActive, utterance, inflight,
                 timers, nextId>>
  /\ UNCHANGED <<resultsOf, latestOk>>

\* variant: the status is set to listening before start() is called
startListening_listeningFirst ==
  /\ speechSupported
  /\ status \notin {"listening", "searching"}
  /\ recognitionRef
  /\ transcript' = ""
  /\ IF recActive
     THEN /\ error' = Some(StartFailedMsg)
          /\ status' = "idle"
          /\ steps' = <<status, "listening", "idle">>
          /\ calls' = <<"setError", "setTranscript", "setStatus",
                      "recognition.start", "console.error", "setError",
                      "setStatus">>
          /\ last' = Ran("startListening", "startFailed")
          /\ UNCHANGED <<recActive, recStopping>>
     ELSE /\ error' = None
          /\ recActive' = TRUE
          /\ recStopping' = FALSE
          /\ status' = "listening"
          /\ steps' = <<status, "listening">>
          /\ calls' = <<"setError", "setTranscript", "recognition.start",
                      "setStatus">>
          /\ last' = Ran("startListening", "started")
  /\ UNCHANGED <<query, results, speechSupported, recognitionRef, synthesis,
                 utterance, inflight, timers, nextId>>
  /\ UNCHANGED <<resultsOf, latestOk>>

\* the voice button while it reads "Talk to Agent"; start() throws when the
\* recognizer is already running
startListening ==
  /\ speechSupported
  /\ status \notin {"listening", "searching"}
  /\ recognitionRef
  /\ transcript' = ""
  /\ IF recActive
     THEN /\ error' = Some(StartFailedMsg)
          /\ status' = "idle"
          /\ steps' = <<status, "idle">>
          /\ calls' = <<"setError", "setTranscript", "recognition.start",
                      "console.error", "setError", "setStatus">>
          /\ last' = Ran("startListening", "startFailed")
          /\ UNCHANGED <<recActive, recStopping>>
     ELSE /\ error' = None
          /\ recActive' = TRUE
          /\ recStopping' = FALSE
          /\ status' = "listening"
          /\ steps' = <<status, "listening">>
          /\ calls' = <<"setError", "setTranscript", "recognition.start",
                      "setStatus">>
          /\ last' = Ran("startListening", "started")
  /\ UNCHANGED <<query, results, speechSupported, recognitionRef, synthesis,
                 utterance, inflight, timers, nextId>>
  /\ UNCHANGED <<resultsOf, latestOk>>

\* variant: handleSearch(query) runs before stopListening()
onSubmit_searchFirst ==
  /\ status # "searching"
  /\ recStopping' = (IF recognitionRef /\ recActive THEN TRUE ELSE recStopping)
  /\ IF Trim(query) = ""
     THEN /\ error' = Some(BlankInputMsg)
          /\ status' = "idle"
          /\ steps' = <<status, "idle">>
          /\ calls' = <<"setError">> \o
                        (IF recognitionRef THEN <<"recognition.stop">> ELSE <<>>)
                        \o <<"setStatus">>
          /\ last' = Ran("onSubmit", "blank")
          /\ UNCHANGED <<inflight, nextId>>
     ELSE /\ nextId <= MaxSearches
          /\ error' = None
          /\ status' = "idle"
          /\ steps' = <<status, "searching", "idle">>
          /\ calls' = <<"setStatus", "setError", "fetch">> \o
                        (IF recognitionRef THEN <<"recognition.stop">> ELSE <<>>)
                        \o <<"setStatus">>
          /\ last' = Ran("onSubmit", "sent")
          /\ inflight' = inflight \cup {nextId}
          /\ nextId' = nextId + 1
  /\ UNCHANGED <<query, transcript, results, speechSupported, recognitionRef,
                 synthesis, recActive, utterance, timers>>
  /\ UNCHANGED <<resultsOf, latestOk>>

\* variant: the blank guard tests the text without trimming it
onSubmit_noTrim ==
  /\ status # "searching"
  /\ recStopping' = (IF recognitionRef /\ recActive THEN TRUE ELSE recStopping)
  /\ IF query = ""
     THEN /\ error' = Some(BlankInputMsg)
          /\ status' = "idle"
          /\ steps' = <<status, "idle">>
          /\ calls' = (IF recognitionRef THEN <<"recognition.stop">> ELSE <<>>)
                        \o <<"setStatus", "setError">>
          /\ last' = Ran("onSubmit", "blank")
          /\ UNCHANGED <<inflight, nextId>>
     ELSE /\ nextId <= MaxSearches
          /\ error' = None
          /\ status' = "searching"
          /\ steps' = <<status, "idle", "searching">>
          /\ calls' = (IF recognitionRef THEN <<"recognition.stop">> ELSE <<>>)
                        \o <<"setStatus", "setStatus", "setError", "fetch">>
          /\ last' = Ran("onSubmit", "sent")
          /\ inflight' = inflight \cup {nextId}
          /\ nextId' = nextId + 1
  /\ UNCHANGED <<query, transcript, results, speechSupported, recognitionRef,
                 synthesis, recActive, utterance, timers>>
  /\ UNCHANGED <<resultsOf, latestOk>>

\* the form's onSubmit: stopListening(), then handleSearch(query) up to its
\* return or to the await of fetch; input and button are disabled while
\* searching
onSubmit ==
  /\ status # "searching"
  /\ recStopping' = (IF recognitionRef /\ recActive THEN TRUE ELSE recStopping)
  /\ IF Trim(query) = ""
     THEN /\ error' = Some(BlankInputMsg)
          /\ status' = "idle"
          /\ steps' = <<status, "idle">>
          /\ calls' = (IF recognitionRef THEN <<"recognition.stop">> ELSE <<>>)
                        \o <<"setStatus", "setError">>
          /\ last' = Ran("onSubmit", "blank")
          /\ UNCHANGED <<inflight, nextId>>
     ELSE /\ nextId <= MaxSearches
          /\ error' = None
          /\ status' = "searching"
          /\ steps' = <<status, "idle", "searching">>
          /\ calls' = (IF recognitionRef THEN <<"recognition.stop">> ELSE <<>>)
                        \o <<"setStatus", "setStatus", "setError", "fetch">>
          /\ last' = Ran("onSubmit", "sent")
          /\ inflight' = inflight \cup {nextId}
          /\ nextId' = nextId + 1
  /\ UNCHANGED <<query, transcript, results, speechSupported, recognitionRef,
                 synthesis, recActive, utterance, timers>>
  /\ UNCHANGED <<resultsOf, latestOk>>

\* variant: the catch block also clears the results
handleSearchResume_clearsOnFailure(id, response) ==
  /\ id \in inflight
  /\ inflight' = inflight \ {id}
  /\ IF Succeeds(response)
     THEN LET text == IF Falsy(response.body.summary) THEN DefaultNarration
                      ELSE response.body.summary[1]
          IN /\ results' = (IF response.body.results = None THEN <<>>
                            ELSE response.body.results[1])
             /\ status' = "responding"
             /\ steps' = <<status, "responding">>
             /\ utterance' = (IF synthesis THEN Some(text) ELSE utterance)
             /\ calls' = <<"setResults", "setStatus">>
                          \o (IF synthesis
                              THEN <<"speechSynthesis.cancel", "speechSynthesis.speak">>
                              ELSE <<>>)
                          \o <<"setTimeout">>
             /\ timers' = timers \cup {id}
             /\ resultsOf' = id
             /\ latestOk' = (IF id > latestOk THEN id ELSE latestOk)
             /\ last' = [Ran("handleSearch", "ok") EXCEPT
                          !.input = Some([id |-> id, response |-> response])]
             /\ UNCHANGED error
     ELSE /\ error' = Some(FailureMessage(response))
          /\ status' = "idle"
          /\ steps' = <<status, "idle">>
          /\ calls' = <<"console.error", "setError", "setStatus">>
          /\ last' = [Ran("handleSearch", "failed") EXCEPT
                       !.input = Some([id |-> id, response |-> response])]
          /\ results' = <<>>
          /\ UNCHANGED <<utterance, timers, resultsOf, latestOk>>
  /\ UNCHANGED <<query, transcript, speechSupported, recognitionRef, synthesis,
                 recActive, recStopping, nextId>>


\* variant: narration starts before the results and the status are set
handleSearchResume_speakFirst(id, response) ==
  /\ id \in inflight
  /\ inflight' = inflight \ {id}
  /\ IF Succeeds(response)
     THEN LET text == IF Falsy(response.body.summary) THEN DefaultNarration
                      ELSE response.body.summary[1]
          IN /\ results' = (IF response.body.results = None THEN <<>>
                            ELSE response.body.results[1])
             /\ status' = "responding"
             /\ steps' = <<status, "responding">>
             /\ utterance' = (IF synthesis THEN Some(text) ELSE utterance)
             /\ calls' = (IF synthesis
                          THEN <<"speechSynthesis.cancel", "speechSynthesis.speak">>
                          ELSE <<>>)
                          \o <<"setResults", "setStatus", "setTimeout">>
             /\ timers' = timers \cup {id}
             /\ resultsOf' = id
             /\ latestOk' = (IF id > latestOk THEN id ELSE latestOk)
             /\ last' = [Ran("handleSearch", "ok") EXCEPT
                          !.input = Some([id |-> id, response |-> response])]
             /\ UNCHANGED error
     ELSE /\ error' = Some(FailureMessage(response))
          /\ status' = "idle"
          /\ steps' = <<status, "idle">>
          /\ calls' = <<"console.error", "setError", "setStatus">>
          /\ last' = [Ran("handleSearch", "failed") EXCEPT
                       !.input = Some([id |-> id, response |-> response])]
          /\ UNCHANGED <<results, utterance, timers, resultsOf, latestOk>>
  /\ UNCHANGED <<query, transcript, speechSupported, recognitionRef, synthesis,
                 recActive, recStopping, nextId>>

\* handleSearch from the point where fetch settles to its end
handleSearchResume(id, response) ==
  /\ id \in inflight
  /\ inflight' = inflight \ {id}
  /\ IF Succeeds(response)
     THEN LET text == IF Falsy(response.body.summary) THEN DefaultNarration
                      ELSE response.body.summary[1]
          IN /\ results' = (IF response.body.results = None THEN <<>>
                            ELSE response.body.results[1])
             /\ status' = "responding"
             /\ steps' = <<status, "responding">>
             /\ utterance' = (IF synthesis THEN Some(text) ELSE utterance)
             /\ calls' = <<"setResults", "setStatus">>
                          \o (IF synthesis
                              THEN <<"speechSynthesis.cancel", "speechSynthesis.speak">>
                              ELSE <<>>)
                          \o <<"setTimeout">>
             /\ timers' = timers \cup {id}
             /\ resultsOf' = id
             /\ latestOk' = (IF id > latestOk THEN id ELSE latestOk)
             /\ last' = [Ran("handleSearch", "ok") EXCEPT
                          !.input = Some([id |-> id, response |-> response])]
             /\ UNCHANGED error
     ELSE /\ error' = Some(FailureMessage(response))
          /\ status' = "idle"
          /\ steps' = <<status, "idle">>
          /\ calls' = <<"console.error", "setError", "setStatus">>
          /\ last' = [Ran("handleSearch", "failed") EXCEPT
                       !.input = Some([id |-> id, response |-> response])]
          /\ UNCHANGED <<results, utterance, timers, resultsOf, latestOk>>
  /\ UNCHANGED <<query, transcript, speechSupported, recognitionRef, synthesis,
                 recActive, recStopping, nextId>>

\* the callback handed to setTimeout(..., 600)
timeout(id) ==
  /\ id \in timers
  /\ timers' = timers \ {id}
  /\ status' = "idle"
  /\ last' = Ran("timeout", "")
  /\ steps' = <<status, "idle">>
  /\ calls' = <<"setStatus">>
  /\ UNCHANGED <<query, transcript, results, error, speechSupported,
                 recognitionRef, synthesis, recActive, recStopping, utterance,
                 inflight, nextId>>
  /\ UNCHANGED <<resultsOf, latestOk>>

\* speechSynthesis finishes speaking the utterance
utteranceEnd ==
  /\ utterance # None
  /\ utterance' = None
  /\ last' = Ran("utteranceEnd", "")
  /\ steps' = <<status>>
  /\ calls' = <<>>
  /\ UNCHANGED <<query, transcript, results, status, error, speechSupported,
                 recognitionRef, synthesis, recActive, recStopping, inflight,
                 timers, nextId>>
  /\ UNCHANGED <<resultsOf, latestOk>>

ClNext ==
  \/ \E text \in TypedTexts : onChange(text)
  \/ \E event \in RecognitionEvents : onresult(event)
  \/ onerror
  \/ onend
  \/ stopListening
  \/ startListening
  \/ onSubmit
  \/ \E id \in 1..MaxSearches, response \in GatewayResponses :
       handleSearchResume(id, response)
  \/ \E id \in 1..MaxSearches : timeout(id)
  \/ utteranceEnd

\* ------------------------------------------------------------------------
\* Specifications
\* ------------------------------------------------------------------------
Init == GwInit /\ ClInit

\* the gateway serving requests, whoever sends them
SpecGateway == Init /\ [][GwNext /\ UNCHANGED clVars]_vars

\* the client against a gateway whose answers are arbitrary
SpecClient ==
  /\ Init /\ GOOGLE_API_KEY = Some("k") /\ GOOGLE_CSE_ID = Some("k")
  /\ [][ClNext /\ UNCHANGED gwVars]_vars

\* the gateway and the client each on its own: they share no state, so a
\* conjunction of a gateway invariant and a client invariant holds of their
\* interleaving exactly when it holds of each of them running alone
GatewayAlone == GwNext /\ UNCHANGED clVars /\ last.op = "mount"
ClientAlone ==
  /\ ClNext /\ UNCHANGED gwVars
  /\ gwPc = "ready" /\ GOOGLE_API_KEY = Some("k") /\ GOOGLE_CSE_ID = Some("k")
SpecComponents == Init /\ [][GatewayAlone \/ ClientAlone]_vars

\* ------------------------------------------------------------------------
\* Properties of the Query Gateway
\* ------------------------------------------------------------------------
BlankQuery(q) == q = None \/ Trim(q[1]) = ""
CredentialMissing == Falsy(GOOGLE_API_KEY) \/ Falsy(GOOGLE_CSE_ID)
Returned == gwPc = "returned" /\ gwResponse # None

\* C1: a request whose query is absent, empty or blank after trimming is
\* answered 400 { error: "Missing query" } without any provider call,
\* whatever the credentials are.
C1_BlankQueryIs400 ==
  (Returned /\ BlankQuery(gwQuery)) =>
    /\ gwResponse[1].status = 400
    /\ gwResponse[1].error = Some("Missing query")
    /\ gwResponse[1].results = None
    /\ gwFetches = 0
    /\ gwProvider = None

C1_Witness ==
  /\ Returned
  /\ gwQuery = Some("  ")
  /\ GOOGLE_API_KEY = None
  /\ gwResponse[1].status = 400

\* C2 as stated: with a credential missing every request, blank or not, is
\* answered with the 500 configuration error and no provider call.
C2_Original ==
  (Returned /\ CredentialMissing) =>
    /\ gwResponse[1].status = 500
    /\ gwResponse[1].error = Some(NotConfiguredMsg)
    /\ gwFetches = 0

\* C2 (amended): with a credential missing, every request whose query is
\* non-blank is answered with the 500 configuration error, and no request at
\* all leads to a provider call.
C2_NonBlankUnconfiguredIs500 ==
  /\ (Returned /\ CredentialMissing /\ ~BlankQuery(gwQuery)) =>
       /\ gwResponse[1].status = 500
       /\ gwResponse[1].error = Some(NotConfiguredMsg)
  /\ CredentialMissing => (gwFetches = 0 /\ gwProvider = None /\ gwPc # "awaitFetch")

C2_Witness ==
  /\ Returned
  /\ gwQuery = Some("a b")
  /\ GOOGLE_API_KEY = Some("k")
  /\ GOOGLE_CSE_ID = None
  /\ gwResponse[1].status = 500

\* C5 as stated: a provider answer with non-success status s is forwarded as
\* status s with the payload's error string, or with the generic message when
\* the payload does not parse or its error field is not a string.
C5_ProviderErrorForwarded ==
  (Returned /\ gwProvider # None /\ gwProvider[1].status \in ErrorStatuses) =>
    LET payload == gwProvider[1].payload
        m == IF payload.kind # "unparseable" /\ payload.error # None
                /\ payload.error[1].isString
             THEN payload.error[1].val
             ELSE "Google Search API error"
    IN /\ gwResponse[1].status = gwProvider[1].status
       /\ gwResponse[1].error = Some(m)

\* C6: for a result list of length n >= 1 the summary is the prefix with the
\* query followed by the "{title}. {snippet}" fragments of the first
\* min(3, n) results joined by single spaces; it is non-empty, contains the
\* first title, and does not depend on results beyond the third.
Fragment(r) == r.title \o ". " \o r.snippet
ExpectedHighlights(rs) ==
  CASE Len(rs) = 1 -> Fragment(rs[1])
    [] Len(rs) = 2 -> Fragment(rs[1]) \o " " \o Fragment(rs[2])
    [] OTHER -> Fragment(rs[1]) \o " " \o Fragment(rs[2]) \o " " \o Fragment(rs[3])
FirstThree(l) == SubSeq(l, 1, Min(3, Len(l)))
Contains(s, t) == \E i \in 1..(Len(s) - Len(t) + 1) : SubSeq(s, i, i + Len(t) - 1) = t

C6_SummaryOfFirstThree ==
  (Returned /\ gwResponse[1].results # None /\ Len(gwResponse[1].results[1]) >= 1) =>
    LET rs == gwResponse[1].results[1]
        summary == gwResponse[1].summary[1]
    IN /\ summary = "Here is what I found for " \o gwQuery[1] \o ". "
                      \o ExpectedHighlights(rs)
       /\ Len(summary) > 0
       /\ Contains(summary, rs[1].title)
       /\ \A other \in ItemLists :
            (Len(other) >= 1 /\ FirstThree(other) = FirstThree(gwProvider[1].payload.items[1]))
              => summarizeResults(gwQuery[1], NormalizeItems(Payload("object", None, Some(other))))
                   = summary

C6_Witness ==
  /\ Returned
  /\ gwResponse[1].results # None
  /\ Len(gwResponse[1].results[1]) = 4
  /\ gwResponse[1].results[1][3].title = "T2"
  /\ gwResponse[1].results[1][4].title = "T1"
  /\ gwResponse[1].summary = Some("Here is what I found for a b. T1. S1 T1. S1 T2. S2")

\* C7: the normalized results have the length and order of the provider's
\* item list (none for an absent list) and the i-th result carries the i-th
\* item's title, link, snippet and displayLink unchanged.
C7_ResultsMirrorItems ==
  (Returned /\ gwProvider # None /\ gwProvider[1].status \in OkStatuses
     /\ gwProvider[1].payload.kind \in {"object", "scalar"}) =>
    LET payload == gwProvider[1].payload
        items == IF payload.items = None THEN <<>> ELSE payload.items[1]
    IN /\ gwResponse[1].status = 200
       /\ gwResponse[1].results # None
       /\ Len(gwResponse[1].results[1]) = Len(items)
       /\ \A i \in 1..Len(items) :
            /\ gwResponse[1].results[1][i].title = items[i].title
            /\ gwResponse[1].results[1][i].link = items[i].link
            /\ gwResponse[1].results[1][i].snippet = items[i].snippet
            /\ gwResponse[1].results[1][i].displayLink = items[i].displayLink
            /\ DOMAIN gwResponse[1].results[1][i] = {"title", "link", "snippet", "displayLink"}

C7_Witness ==
  /\ Returned
  /\ gwProvider # None
  /\ gwProvider[1].status = 200
  /\ gwProvider[1].payload.items = Some(<<Item1, Item2, Item2>>)
  /\ gwResponse[1].results # None
  /\ Len(gwResponse[1].results[1]) = 3
  /\ gwResponse[1].results[1][1].link = "http://a/1"

\* ------------------------------------------------------------------------
\* Properties of the Agent Client
\* ------------------------------------------------------------------------
Edges ==
  {<<"idle", "listening">>, <<"listening", "idle">>, <<"idle", "searching">>,
   <<"searching", "responding">>, <<"responding", "idle">>, <<"searching", "idle">>}

\* C3 as stated: counting every status assignment as a step, the status only
\* changes along idle->listening, listening->idle, idle->searching,
\* searching->responding, responding->idle and, on search failure,
\* searching->idle.
C3_OnlyNamedEdges ==
  \A i \in 1..(Len(steps) - 1) :
    steps[i] # steps[i + 1] => <<steps[i], steps[i + 1]>> \in Edges

CaptureActive == recActive /\ ~recStopping
Narrating == utterance # None

\* C4 as stated: voice capture and narration are never active together.
C4_CaptureExcludesNarration == ~(CaptureActive /\ Narrating)

\* C8: a submission made while voice capture is active asks the recognizer to
\* stop strictly before it issues the gateway request, and a blank one stops
\* capture and issues no request.
C8_StopBeforeFetch ==
  (last.op = "onSubmit" /\ last.capture) =>
    /\ \E i \in 1..Len(calls) : calls[i] = "recognition.stop"
    /\ \A j \in 1..Len(calls) :
         calls[j] = "fetch" => \E i \in 1..(j - 1) : calls[i] = "recognition.stop"
    /\ recStopping
    /\ last.outcome = "sent" => Cardinality({j \in 1..Len(calls) : calls[j] = "fetch"}) = 1
    /\ last.outcome = "blank" => \A j \in 1..Len(calls) : calls[j] # "fetch"

C8_Witness ==
  /\ last.op = "onSubmit"
  /\ last.capture
  /\ last.outcome = "sent"
  /\ inflight # {}
  /\ recActive

FailureOutcomes == {"blank", "startFailed", "failed"}

\* C9 as stated: every failure path (blank submission, capture start
\* failure, recognition error event, failed search) leaves a non-null error
\* message and status idle.
C9_FailureSetsMessageAndIdle ==
  last.outcome \in FailureOutcomes => (error # None /\ status = "idle")

\* C10: no failure path (blank submission, capture start failure,
\* recognition error event, failed search) changes the stored results.
C10_FailureKeepsResults ==
  [][last'.outcome \in FailureOutcomes => results' = results]_vars

C10_Witness ==
  /\ last.op = "handleSearch"
  /\ last.outcome = "failed"
  /\ results = <<SearchItemB, SearchItemA>>
  /\ error # None

\* the position of the first occurrence of call c in calls, 0 when absent
Position(c) ==
  IF \E i \in 1..Len(calls) : calls[i] = c
  THEN CHOOSE i \in 1..Len(calls) : calls[i] = c /\ \A j \in 1..(i - 1) : calls[j] # c
  ELSE 0

SearchSucceeded == last.op = "handleSearch" /\ last.outcome = "ok"
SearchFailed == last.op = "handleSearch" /\ last.outcome = "failed"

\* C11 as stated: after a successful gateway response the client stores the
\* results, sets responding, cancels narration and narrates the summary, in
\* this order, and the status is idle once the delay has elapsed.
C11_Original ==
  /\ SearchSucceeded =>
       /\ calls = <<"setResults", "setStatus", "speechSynthesis.cancel",
                    "speechSynthesis.speak", "setTimeout">>
       /\ status = "responding"
       /\ utterance = last.input[1].response.body.summary
  /\ last.op = "timeout" => status = "idle"

\* C11 (amended): after a successful gateway response the client stores the
\* returned results (none when the field is absent), then sets responding,
\* then, when speech synthesis is available, cancels narration and narrates
\* the summary, or the default sentence when the summary is empty or absent,
\* and arms the delay timer; without speech synthesis nothing is narrated.
\* When the timer fires the status is idle.
C11_ResultsRespondingNarration ==
  /\ SearchSucceeded =>
       LET body == last.input[1].response.body IN
       /\ results = (IF body.results = None THEN <<>> ELSE body.results[1])
       /\ status = "responding"
       /\ steps[Len(steps)] = "responding"
       /\ Position("setResults") = 1
       /\ Position("setStatus") = 2
       /\ Position("setTimeout") = Len(calls)
       /\ last.input[1].id \in timers
       /\ synthesis =>
            /\ Position("speechSynthesis.cancel") = 3
            /\ Position("speechSynthesis.speak") = 4
            /\ utterance = Some(IF body.summary = None \/ body.summary[1] = ""
                                THEN "Here are your search results."
                                ELSE body.summary[1])
       /\ ~synthesis =>
            /\ Position("speechSynthesis.cancel") = 0
            /\ Position("speechSynthesis.speak") = 0
            /\ utterance = None
  /\ last.op = "timeout" => status = "idle"

C11_Witness ==
  /\ SearchSucceeded
  /\ synthesis
  /\ last.narrating
  /\ utterance = Some("S")
  /\ results = <<SearchItemB, SearchItemA>>
  /\ Cardinality(timers) = 2

\* C12 as stated: a failed search sets the error message to the gateway's
\* error string when there is one and to some other message otherwise, and
\* takes the status from searching to idle, never through responding and
\* without starting narration.
GatewayErrorAvailable(response) ==
  ~response.rejected /\ ~response.ok /\ response.body.kind = "object"
    /\ response.body.error # None /\ response.body.error[1] # ""

C12_FailedSearchToIdle ==
  SearchFailed =>
    LET response == last.input[1].response IN
    /\ error # None
    /\ GatewayErrorAvailable(response) => error = response.body.error
    /\ steps = <<"searching", "idle">>
    /\ status = "idle"
    /\ Position("speechSynthesis.speak") = 0

\* C13: a submission whose text is empty or blank after trimming sets the
\* error message, issues no gateway request and assigns neither searching
\* nor responding.
C13_BlankSubmission ==
  (last.op = "onSubmit" /\ Trim(query) = "") =>
    /\ last.outcome = "blank"
    /\ error = Some("Please provide something to search for.")
    /\ Position("fetch") = 0
    /\ \A i \in 2..Len(steps) : steps[i] \notin {"searching", "responding"}
    /\ status = "idle"

C13_Witness ==
  /\ last.op = "onSubmit"
  /\ last.outcome = "blank"
  /\ query = " "
  /\ steps[1] = "responding"
  /\ inflight = {}

\* C14: when the provider call of a valid, configured request cannot
\* complete (fetch rejects, or the body of a successful provider response is
\* not JSON) the gateway answers 500 { error: "Search request failed" } and
\* writes one log entry.
ProviderCallIncomplete ==
  /\ Returned
  /\ gwProvider # None
  /\ \/ gwProvider[1].payload.kind = "rejected"
     \/ gwProvider[1].status \in OkStatuses /\ gwProvider[1].payload.kind = "unparseable"

C14_TransportFailureIs500 ==
  ProviderCallIncomplete =>
    /\ gwResponse[1].status = 500
    /\ gwResponse[1].error = Some("Search request failed")
    /\ gwResponse[1].results = None
    /\ gwLogs = 1

C14_Witness ==
  /\ ProviderCallIncomplete
  /\ gwProvider[1].payload.kind = "rejected"
  /\ gwQuery = Some(" a")
  /\ gwLogs = 1

\* C16: a successful provider response with no items (empty or absent item
\* list) for query q is answered 200 with an empty results list and the
\* summary "I could not find any results for q.".
C16_NoResultsSentence ==
  (Returned /\ gwProvider # None /\ gwProvider[1].status \in OkStatuses
     /\ gwProvider[1].payload.kind = "object"
     /\ gwProvider[1].payload.items \in {None, Some(<<>>)}) =>
    /\ gwResponse[1].status = 200
    /\ gwResponse[1].error = None
    /\ gwResponse[1].results = Some(<<>>)
    /\ gwResponse[1].summary =
         Some("I could not find any results for " \o gwQuery[1] \o ".")

C16_Witness ==
  /\ Returned
  /\ gwProvider # None
  /\ gwProvider[1].status = 200
  /\ gwProvider[1].payload = Payload("object", None, None)
  /\ gwQuery = Some("a b")
  /\ gwResponse[1].summary = Some("I could not find any results for a b.")

\* C17: when start() fails, the client ends with the start-failure message
\* and status idle, listening is not assigned at any point of the attempt,
\* and the transcript and the error were cleared before start() was called.
C17_StartFailure ==
  (last.op = "startListening" /\ last.outcome = "startFailed") =>
    /\ error = Some("Voice input failed to start. Please try again.")
    /\ status = "idle"
    /\ \A i \in 1..Len(steps) : steps[i] # "listening"
    /\ transcript = ""
    /\ Position("setError") = 1
    /\ Position("setTranscript") = 2
    /\ Position("recognition.start") = 3
    /\ \A i \in 1..Len(calls) :
         calls[i] = "setStatus" => i > Position("recognition.start")

C17_Witness ==
  /\ last.op = "startListening"
  /\ last.outcome = "startFailed"
  /\ recActive
  /\ recStopping
  /\ steps = <<"responding", "idle">>

\* C15: a gateway request that passes the query and credential checks issues
\* exactly one provider call and no request issues more than one; the
\* gateway never calls the provider again after a failure, and the client
\* issues a gateway request only from a submission, at most one per
\* submission, never from the handling of a failed search.
Fetches == {j \in 1..Len(calls) : calls[j] = "fetch"}

C15_OneCallNoRetry ==
  /\ gwFetches \in {0, 1}
  /\ (gwPc # "ready" /\ ~BlankQuery(gwQuery) /\ ~CredentialMissing) => gwFetches = 1
  /\ (BlankQuery(gwQuery) \/ CredentialMissing) => gwFetches = 0
  /\ gwProvider # None => gwFetches = 1
  /\ Cardinality(Fetches) <= 1
  /\ Fetches # {} => (last.op = "onSubmit" /\ last.outcome = "sent")
  /\ SearchFailed => (Fetches = {} /\ last.input[1].id \notin inflight)

C15_Witness ==
  /\ Returned
  /\ gwProvider # None
  /\ gwProvider[1].status = 500
  /\ gwFetches = 1
  /\ gwResponse[1].status = 500

\* C18 as stated: while a gateway request of the client is in flight the
\* status is searching.
C18_SearchingWhileInFlight == inflight # {} => status = "searching"

\* C19 as stated: while voice capture is active (started, not asked to stop,
\* not ended) the status is listening.
C19_ListeningWhileCapturing == CaptureActive => status = "listening"

\* C20 as stated: at most one gateway request is in flight at any time, and
\* the stored results are those of the most recently submitted search that
\* succeeded.
C20_OneInFlight ==
  /\ Cardinality(inflight) <= 1
  /\ resultsOf = latestOk

====
